---- MODULE Spec2Model ----
(***************************************************************************)
(* State-machine model of the cbuffer crate: a single-producer /           *)
(* single-consumer byte-message ring over a region of two adjacent         *)
(* N-byte mappings.                                                        *)
(*                                                                         *)
(* The atomic-index variant (src/src/cbuffer_raw.rs, the module lib.rs     *)
(* declares) is modelled step by step: every access to a shared atomic     *)
(* index and every memory copy is one step of its thread, so that the      *)
(* interleavings of one producer and one consumer are explored.            *)
(*                                                                         *)
(* usize values are kept as integers; a negative integer k stands for the  *)
(* wrapped value 2^64 + k that a release build computes where a debug      *)
(* build panics with "attempt to subtract with overflow".                  *)
(***************************************************************************)
EXTENDS Integers, Sequences, FiniteSets, TLC

\* Capacity N of the ring, in bytes (the crate offers 64..512 MiB, scaled).
Capacity == 10

\* At most this many push/pop calls are begun in one run.
MaxCalls == 6

\* At most this many calls are begun in a run where the threads interleave.
MaxConcCalls == 4

\* test_channel pushes n frames (1 000 000 in the crate, scaled).
LoopFrames == 3

\* At most this many calls each thread of test_channel begins.
MaxLoopCalls == 6

\* Values of the payload bytes the producer draws from.
PayloadBytes == {0, 1}

\* Payload lengths the producer draws from: 0 .. N - 3, so that lengths
\* N - 5 (largest admissible), N - 4 and N - 3 (too large) all occur.
PayloadLens == 0 .. (Capacity - 3)

\* The payloads offered to push: every length, filled with one byte value.
Payloads == { [i \in 1..n |-> v] : n \in PayloadLens, v \in PayloadBytes }

VARIABLES
    variant,    \* "raw" = src/src/cbuffer_raw.rs, "arc" = src/src/cbuffer_raw_arc.rs
    debug,      \* build profile: TRUE = overflow checks on (debug), FALSE = release
    ctor,       \* with_capacity: "start" (not yet called), "done" (Ok), "failed" (Err)
    backing,    \* what backs each N-byte half of the range: "unmapped", "reserved"
                \* (PROT_NONE), or the anonymous shared object an mmap call created
    capacity,   \* CBuffer.capacity
    mem,        \* the bytes at base+0 .. base+2N-1 (two separate mappings)
    head,       \* CBuffer.head (raw), head_tail.0 (arc)
    tail,       \* CBuffer.tail (raw), head_tail.1 (arc)
    lock,       \* arc: the Mutex around head_tail: "free", its holder, or "poisoned"
    ppc,        \* producer: position inside push/offer
    pdata,      \* producer: the payload of the push in progress (or last begun)
    pbuf,       \* producer: the bytes the current offer() writes
    pstage,     \* producer: 1 = offer(&l), 2 = offer(data)
    ptail,      \* producer: local `tail`
    pstart,     \* history: the tail the push in progress (or last begun) started from
    pret,       \* producer: result of the last completed push ("none" before)
    cpc,        \* consumer: position inside pop/poll
    clen,       \* consumer: the `len` of the current poll() / of the frame
    cstage,     \* consumer: 1 = poll(4), 2 = poll(size)
    chead,      \* consumer: local `head`
    cbuf,       \* consumer: the bytes copied (`r`) or lent to the callback (`rt`)
    cret,       \* consumer: result of the last completed pop: <<>> None, <<v>> Some(v)
    pcalls,     \* history: number of push calls begun
    ccalls,     \* history: number of pop calls begun
    cstart,     \* history: the head the pop in progress (or last begun) started from
    pushed,     \* history: payloads of the pushes that returned true
    pushedAt,   \* history: the tail each of those pushes started from
    delivered,  \* history: payloads pop returned as Some / passed to the callback
    cframe      \* history: number of frames whose length prefix pop has read

vars == <<variant, debug, ctor, backing, capacity, mem, head, tail, lock, ppc, pdata, pbuf, pstage, ptail,
          pstart, pret, cpc, clen, cstage, chead, cbuf, cret, pcalls, ccalls, cstart,
          pushed,
          pushedAt, delivered, cframe>>

\* What only the producer / only the consumer writes, and what no push or pop
\* writes: the build and what with_capacity set up.
pvars == <<ppc, pdata, pbuf, pstage, ptail, pstart, pret, pcalls, pushed, pushedAt>>
cvars == <<cpc, clen, cstage, chead, cbuf, cret, ccalls, cstart, delivered,
          cframe>>
build == <<variant, debug, ctor, backing, capacity>>

\* A thread that is not inside a call and can begin one.
Dead == {"panicked", "segv", "killed"}

----------------------------------------------------------------------------
(* Arithmetic helpers *)

\* Unsigned comparison of usize values (negative = wrapped, i.e. huge).
UsizeLt(a, b) == IF (a >= 0) = (b >= 0) THEN a < b ELSE b < 0

UsizeLe(a, b) == a = b \/ UsizeLt(a, b)

\* byteorder LittleEndian::write_u32
transform_u32_to_array_of_u8(x) ==
    << x % 256, (x \div 256) % 256, (x \div 65536) % 256, (x \div 16777216) % 256 >>

\* byteorder LittleEndian::read_u32
transform_array_of_u8_to_u32(b) ==
    b[1] + 256 * b[2] + 65536 * b[3] + 16777216 * b[4]

----------------------------------------------------------------------------
(* Queries of CBuffer *)

\* The emptiness test inverted.
is_empty_inverted(h, t) == t # h

is_empty(h, t) == t = h

\* used() panics in a debug build when capacity - (head - tail) underflows.
used_overflows(h, t) == h > t /\ (h - t) > Capacity

\* The two branches of used() exchanged.
used_exchanged(h, t) == IF h <= t THEN Capacity - (h - t) ELSE t - h

used(h, t) == IF h <= t THEN t - h ELSE Capacity - (h - t)

\* unused() = capacity - used(); it underflows when used() > capacity.
unused_overflows(h, t) == used_overflows(h, t) \/ UsizeLt(Capacity, used(h, t))

unused(h, t) == Capacity - used(h, t)

----------------------------------------------------------------------------
(* The region: with_capacity installs two MAP_SHARED | MAP_ANONYMOUS        *)
(* mappings (fd -1) at base and at base+N. Each such mmap call creates its  *)
(* own zero-filled pages, so base+i and base+N+i are different bytes.       *)

InMapping(off, n) == off >= 0 /\ n >= 0 /\ off + n <= 2 * Capacity

\* Addresses base+a and base+b are the same byte of the same object.
SameStorage(a, b) ==
    /\ backing[a \div Capacity] = backing[b \div Capacity]
    /\ a % Capacity = b % Capacity

\* A store of v to base+a: every address of the same storage reads v after it.
StoreByte(m, a, v) == [b \in DOMAIN m |-> IF SameStorage(a, b) THEN v ELSE m[b]]

\* slice::copy_from_slice into base+off.. : byte stores in address order.
RECURSIVE WriteBytes(_, _, _)
WriteBytes(m, off, bytes) ==
    IF bytes = <<>> THEN m
    ELSE WriteBytes(StoreByte(m, off, Head(bytes)), off + 1, Tail(bytes))

\* The leading part of `bytes`, written at base+off, that stays in the mapping.
Mapped(off, bytes) ==
    IF InMapping(off, Len(bytes)) THEN bytes
    ELSE IF off >= 2 * Capacity THEN <<>>
    ELSE SubSeq(bytes, 1, 2 * Capacity - off)

\* The bytes of base+off .. base+off+n; g is what a byte beyond the mapping
\* reads as when the access does not fault.
ReadBytes(m, off, n, g) ==
    [i \in 1..n |-> IF off + i - 1 < 2 * Capacity
                    THEN m[off + i - 1] ELSE g]

\* Outcomes of an access that leaves the mapping: -1 = SIGSEGV, otherwise the
\* value the bytes beyond the mapping read as. An access reaching further
\* than one more N beyond the mapping always faults.
Stray(off, n) ==
    IF off + n > 3 * Capacity THEN {-1} ELSE {-1} \cup PayloadBytes

----------------------------------------------------------------------------
\* The region as the three mmap calls of with_capacity leave it when the
\* first `failed - 1` of them succeed (failed = 0: all three succeed). Call 1
\* reserves the 2N bytes (PROT_NONE); calls 2 and 3 are MAP_FIXED |
\* MAP_SHARED | MAP_ANONYMOUS with fd -1 at base and at base+N: each of them
\* creates an anonymous object of its own.
RegionAfter(failed) ==
    [h \in {0, 1} |->
        IF failed = 1 THEN "unmapped"
        ELSE IF failed = 2 THEN "reserved"
        ELSE IF h = 0 THEN "anon_primary"
        ELSE IF failed = 3 THEN "reserved"
        ELSE "anon_secondary"]

\* CBuffer::with_capacity succeeded: zero-filled pages, head = tail = 0.
Init ==
    /\ variant \in {"raw", "arc"}
    /\ debug \in BOOLEAN
    /\ ctor = "done"
    /\ backing = RegionAfter(0)
    /\ capacity = Capacity
    /\ mem = [a \in 0..(2 * Capacity - 1) |-> 0]
    /\ head = 0
    /\ tail = 0
    /\ lock = "free"
    /\ ppc = "idle" /\ pdata = <<>> /\ pbuf = <<>> /\ pstage = 0 /\ ptail = 0
    /\ pstart = 0
    /\ pret = "none"
    /\ cpc = "idle" /\ clen = 0 /\ cstage = 0 /\ chead = 0 /\ cbuf = <<>>
    /\ cret = <<>>
    /\ pcalls = 0 /\ ccalls = 0 /\ cstart = 0
    /\ pushed = <<>> /\ pushedAt = <<>> /\ delivered = <<>>
    /\ cframe = 0

\* Before with_capacity is called: nothing is mapped, no CBuffer exists.
InitCtor ==
    /\ variant \in {"raw", "arc"}
    /\ debug \in BOOLEAN
    /\ ctor = "start"
    /\ backing = [h \in {0, 1} |-> "unmapped"]
    /\ capacity = 0
    /\ mem = [a \in 0..(2 * Capacity - 1) |-> 0]
    /\ head = 0
    /\ tail = 0
    /\ lock = "free"
    /\ ppc = "idle" /\ pdata = <<>> /\ pbuf = <<>> /\ pstage = 0 /\ ptail = 0
    /\ pstart = 0
    /\ pret = "none"
    /\ cpc = "idle" /\ clen = 0 /\ cstage = 0 /\ chead = 0 /\ cbuf = <<>>
    /\ cret = <<>>
    /\ pcalls = 0 /\ ccalls = 0 /\ cstart = 0
    /\ pushed = <<>> /\ pushedAt = <<>> /\ delivered = <<>>
    /\ cframe = 0

\* with_capacity: mmap call number `failed` returns MAP_FAILED (0: none does).
\* On a failure the `?` returns Err(Error::OS) at once, nothing is unmapped;
\* otherwise the CBuffer is built with head = tail = 0.
with_capacity ==
    /\ ctor = "start"
    /\ \E failed \in 0..3 :
         /\ backing' = RegionAfter(failed)
         /\ IF failed = 0
            THEN ctor' = "done" /\ capacity' = Capacity /\ head' = 0 /\ tail' = 0
            ELSE ctor' = "failed" /\ UNCHANGED <<capacity, head, tail>>
    /\ UNCHANGED <<variant, debug, mem, lock>>
    /\ UNCHANGED pvars
    /\ UNCHANGED cvars

\* size()
size == capacity

----------------------------------------------------------------------------
(* cbuffer_raw.rs, producer: CBuffer::push and CBuffer::offer, one step    *)
(* per access to a shared index and per memory copy                        *)

\* offer() returns b: after offer(&l) push goes on to offer(data), whose
\* result is the result of push.
OfferReturn(b) ==
    IF pstage = 1
    THEN /\ ppc' = "offer_check"
         /\ pstage' = 2
         /\ pbuf' = pdata
         /\ UNCHANGED <<pret, pushed, pushedAt>>
    ELSE /\ ppc' = "idle"
         /\ pret' = IF b THEN "true" ELSE "false"
         /\ pushed' = IF b THEN Append(pushed, pdata) ELSE pushed
         /\ pushedAt' = IF b THEN Append(pushedAt, pstart) ELSE pushedAt
         /\ UNCHANGED <<pstage, pbuf>>

\* push, lines 157-161: the space check, then the length prefix is encoded.
PushBegin(d) ==
    /\ ppc = "idle"
    /\ pcalls' = pcalls + 1
    /\ pdata' = d
    /\ pstart' = tail
    /\ IF debug /\ unused_overflows(head, tail)
       THEN ppc' = "panicked" /\ UNCHANGED <<pbuf, pstage, pret>>
       ELSE IF UsizeLe(unused(head, tail), Len(d) + 4)
       THEN ppc' = "idle" /\ pret' = "false" /\ UNCHANGED <<pbuf, pstage>>
       ELSE /\ ppc' = "offer_check"
            /\ pstage' = 1
            /\ pbuf' = transform_u32_to_array_of_u8(Len(d))
            /\ UNCHANGED pret
    /\ UNCHANGED <<build, mem, head, tail, lock, ptail, pushed, pushedAt>>
    /\ UNCHANGED cvars

\* offer, lines 167-170
OfferCheck ==
    /\ ppc = "offer_check"
    /\ IF debug /\ unused_overflows(head, tail)
       THEN ppc' = "panicked" /\ UNCHANGED <<pbuf, pstage, pret, pushed, pushedAt>>
       ELSE IF UsizeLe(unused(head, tail), Len(pbuf))
       THEN OfferReturn(FALSE)
       ELSE ppc' = "offer_slice" /\ UNCHANGED <<pbuf, pstage, pret, pushed, pushedAt>>
    /\ UNCHANGED <<build, mem, head, tail, lock, pdata, ptail, pstart, pcalls>>
    /\ UNCHANGED cvars

\* offer, lines 171-172: tail is loaded, writable_slice() is built with
\* length unused(), and [..size] is bounds-checked against it.
OfferSlice ==
    /\ ppc = "offer_slice"
    /\ ptail' = tail
    /\ IF debug /\ unused_overflows(head, tail)
       THEN ppc' = "panicked"
       ELSE IF UsizeLt(unused(head, tail), Len(pbuf))
       THEN ppc' = "panicked"
       ELSE ppc' = "offer_copy"
    /\ UNCHANGED <<build, mem, head, tail, lock, pdata, pbuf, pstage, pstart, pret,
                   pcalls, pushed, pushedAt>>
    /\ UNCHANGED cvars

\* offer, line 172: copy_from_slice. A copy that runs past base + 2N leaves
\* the mapping: the process dies of SIGSEGV, or the stray bytes land in
\* memory that is not the ring's.
OfferCopy ==
    /\ ppc = "offer_copy"
    /\ \E outcome \in {"segv", "stray"} :
         IF InMapping(ptail, Len(pbuf))
         THEN /\ mem' = WriteBytes(mem, ptail, pbuf)
              /\ ppc' = "offer_store"
              /\ UNCHANGED cpc
         ELSE /\ mem' = WriteBytes(mem, ptail, Mapped(ptail, pbuf))
              /\ ppc' = IF outcome = "segv" THEN "segv" ELSE "offer_store"
              /\ cpc' = IF outcome = "segv" THEN "killed" ELSE cpc
    /\ UNCHANGED <<build, head, tail, lock, pdata, pbuf, pstage, ptail, pstart, pret,
                   pcalls, pushed, pushedAt>>
    /\ UNCHANGED <<clen, cstage, chead, cbuf, cret, ccalls, cstart,
                   delivered, cframe>>

\* offer, lines 174-178: the value stored into tail.
NewTail(t, sz) ==
    IF Capacity < t + sz THEN (t + sz) % Capacity ELSE t + sz

\* offer, lines 174-179: the new tail is stored and offer returns true.
OfferStore ==
    /\ ppc = "offer_store"
    /\ tail' = NewTail(ptail, Len(pbuf))
    /\ OfferReturn(TRUE)
    /\ UNCHANGED <<build, mem, head, lock, pdata, ptail, pstart, pcalls>>
    /\ UNCHANGED cvars

----------------------------------------------------------------------------
(* cbuffer_raw.rs, consumer: CBuffer::pop and CBuffer::poll *)

\* pop returns r (<<>> for None, <<v>> for Some(v)).
PopReturn(r) ==
    /\ cpc' = "idle"
    /\ cret' = r
    /\ delivered' = IF r = <<>> THEN delivered ELSE Append(delivered, r[1])

\* pop, lines 183-186
PopBegin ==
    /\ cpc = "idle"
    /\ ccalls' = ccalls + 1
    /\ cstart' = head
    /\ IF is_empty(head, tail)
       THEN PopReturn(<<>>) /\ UNCHANGED <<clen, cstage>>
       ELSE /\ cpc' = "poll_check"
            /\ cstage' = 1
            /\ clen' = 4
            /\ UNCHANGED <<cret, delivered>>
    /\ UNCHANGED <<build, mem, head, tail, lock, chead, cbuf, cframe>>
    /\ UNCHANGED pvars

\* poll, lines 195-197: a None of poll(4) or of poll(size) is the result of pop.
PollCheck ==
    /\ cpc = "poll_check"
    /\ IF is_empty(head, tail)
       THEN PopReturn(<<>>)
       ELSE cpc' = "poll_slice" /\ UNCHANGED <<cret, delivered>>
    /\ UNCHANGED <<build, mem, head, tail, lock, clen, cstage, chead, cbuf, ccalls, cstart,
                   cframe>>
    /\ UNCHANGED pvars

\* poll, lines 198-199: head is loaded, readable_slice() is built with length
\* used(), and [..len] is bounds-checked against it.
PollSlice ==
    /\ cpc = "poll_slice"
    /\ chead' = head
    /\ IF debug /\ used_overflows(head, tail)
       THEN cpc' = "panicked"
       ELSE IF UsizeLt(used(head, tail), clen)
       THEN cpc' = "panicked"
       ELSE cpc' = "poll_copy"
    /\ UNCHANGED <<build, mem, head, tail, lock, clen, cstage, cbuf, cret, ccalls, cstart,
                   delivered, cframe>>
    /\ UNCHANGED pvars

\* poll, line 199: to_vec. A copy that runs past base + 2N leaves the mapping:
\* the process dies of SIGSEGV, or the bytes beyond the mapping are whatever
\* lies there.
PollCopy ==
    /\ cpc = "poll_copy"
    /\ \E g \in Stray(chead, clen) :
         IF InMapping(chead, clen)
         THEN /\ cbuf' = ReadBytes(mem, chead, clen, 0)
              /\ cpc' = "poll_store"
              /\ UNCHANGED ppc
         ELSE IF g = -1
         THEN cpc' = "segv" /\ ppc' = "killed" /\ UNCHANGED cbuf
         ELSE /\ cbuf' = ReadBytes(mem, chead, clen, g)
              /\ cpc' = "poll_store"
              /\ UNCHANGED ppc
    /\ UNCHANGED <<build, mem, head, tail, lock, clen, cstage, chead, cret, ccalls, cstart,
                   delivered, cframe>>
    /\ UNCHANGED <<pdata, pbuf, pstage, ptail, pstart, pret, pcalls, pushed, pushedAt>>

\* poll, line 201: the value stored into head, (len + head) as u32.
NewHead(h, len) == len + h

\* poll, lines 201-202, and pop, lines 187-188: head is stored; the bytes of
\* poll(4) are decoded into the length of poll(size), whose bytes pop returns.
PollStore ==
    /\ cpc = "poll_store"
    /\ head' = NewHead(chead, clen)
    /\ IF cstage = 1
       THEN /\ cpc' = "poll_check"
            /\ cstage' = 2
            /\ clen' = transform_array_of_u8_to_u32(cbuf)
            /\ cframe' = cframe + 1
            /\ UNCHANGED <<cret, delivered>>
       ELSE PopReturn(<<cbuf>>) /\ UNCHANGED <<clen, cstage, cframe>>
    /\ UNCHANGED <<build, mem, tail, lock, chead, cbuf, ccalls, cstart>>
    /\ UNCHANGED pvars

----------------------------------------------------------------------------
(* cbuffer_raw_arc.rs: head and tail behind one Mutex. lock() blocks while  *)
(* the other thread holds the mutex and panics once the mutex is poisoned   *)
(* (a thread panicked while holding it).                                    *)

\* push, lines 157-161: unused() takes the mutex inside used() and releases
\* it on return; an overflow panic inside used() poisons the mutex.
ArcPushBegin(d) ==
    /\ ppc = "idle"
    /\ lock \in {"free", "poisoned"}
    /\ pcalls' = pcalls + 1
    /\ pdata' = d
    /\ pstart' = tail
    /\ IF lock = "poisoned"
       THEN ppc' = "panicked" /\ UNCHANGED <<lock, pret>>
       ELSE IF debug /\ unused_overflows(head, tail)
       THEN ppc' = "panicked" /\ lock' = "poisoned" /\ UNCHANGED pret
       ELSE IF UsizeLe(unused(head, tail), Len(d) + 4)
       THEN ppc' = "idle" /\ pret' = "false" /\ UNCHANGED lock
       ELSE ppc' = "arc_lock" /\ UNCHANGED <<lock, pret>>
    /\ UNCHANGED <<build, mem, head, tail, pbuf, pstage, ptail, pushed, pushedAt>>
    /\ UNCHANGED cvars

\* push, lines 162-164: the mutex is taken and tail is read.
ArcPushLock ==
    /\ ppc = "arc_lock"
    /\ lock \in {"free", "poisoned"}
    /\ IF lock = "poisoned"
       THEN ppc' = "panicked" /\ UNCHANGED <<lock, ptail, pbuf>>
       ELSE /\ lock' = "producer"
            /\ ptail' = tail
            /\ pbuf' = transform_u32_to_array_of_u8(Len(pdata)) \o pdata
            /\ ppc' = "arc_write"
    /\ UNCHANGED <<build, mem, head, tail, pdata, pstage, pstart, pret, pcalls,
                   pushed, pushedAt>>
    /\ UNCHANGED cvars

\* push, lines 165-175: the prefix and the payload are copied to tail and
\* tail + 4, the new tail is stored, the mutex is released with the guard.
ArcPushWrite ==
    /\ ppc = "arc_write"
    /\ \E outcome \in {"segv", "stray"} :
         IF InMapping(ptail, Len(pbuf)) \/ outcome = "stray"
         THEN /\ mem' = WriteBytes(mem, ptail, Mapped(ptail, pbuf))
              /\ tail' = NewTail(ptail, Len(pbuf))
              /\ lock' = "free"
              /\ ppc' = "idle"
              /\ pret' = "true"
              /\ pushed' = Append(pushed, pdata)
              /\ pushedAt' = Append(pushedAt, pstart)
              /\ UNCHANGED cpc
         ELSE /\ mem' = WriteBytes(mem, ptail, Mapped(ptail, pbuf))
              /\ ppc' = "segv"
              /\ cpc' = "killed"
              /\ UNCHANGED <<tail, lock, pret, pushed, pushedAt>>
    /\ UNCHANGED <<build, head, pdata, pbuf, pstage, ptail, pstart, pcalls>>
    /\ UNCHANGED <<clen, cstage, chead, cbuf, cret, ccalls, cstart,
                   delivered, cframe>>

\* pop, line 203
ArcPopBegin ==
    /\ cpc = "idle"
    /\ lock \in {"free", "poisoned"}
    /\ ccalls' = ccalls + 1
    /\ cstart' = head
    /\ IF lock = "poisoned"
       THEN cpc' = "panicked" /\ UNCHANGED lock
       ELSE cpc' = "arc_read" /\ lock' = "consumer"
    /\ UNCHANGED <<build, mem, head, tail, clen, cstage, chead, cbuf, cret,
                   delivered, cframe>>
    /\ UNCHANGED pvars

\* pop, lines 204-209: the emptiness test, then the length prefix is read
\* through a raw slice (no bounds check) and the payload slice is built.
ArcPopRead ==
    /\ cpc = "arc_read"
    /\ \E g \in Stray(head, 4) :
         IF head = tail
         THEN /\ cpc' = "idle"
              /\ cret' = <<>>
              /\ lock' = "free"
              /\ UNCHANGED <<ppc, chead, clen, cframe>>
         ELSE IF ~InMapping(head, 4) /\ g = -1
         THEN /\ cpc' = "segv"
              /\ ppc' = "killed"
              /\ UNCHANGED <<lock, chead, clen, cframe, cret>>
         ELSE /\ chead' = head
              /\ clen' = transform_array_of_u8_to_u32(ReadBytes(mem, head, 4, g))
              /\ cframe' = cframe + 1
              /\ cpc' = "arc_callback"
              /\ UNCHANGED <<ppc, lock, cret>>
    /\ UNCHANGED <<build, mem, head, tail, cstage, cbuf, ccalls, cstart,
                   delivered>>
    /\ UNCHANGED <<pdata, pbuf, pstage, ptail, pstart, pret, pcalls, pushed, pushedAt>>

\* pop, line 211: the value stored into head_tail.0
ArcNewHead(h, len) == len + 4 + h

\* pop, lines 210-213: the callback gets the payload slice, head is stored,
\* the mutex is released with the guard.
ArcPopDeliver ==
    /\ cpc = "arc_callback"
    /\ \E g \in Stray(chead + 4, clen) :
         IF ~InMapping(chead + 4, clen) /\ g = -1
         THEN /\ cpc' = "segv"
              /\ ppc' = "killed"
              /\ UNCHANGED <<head, lock, cbuf, cret, delivered>>
         ELSE /\ cbuf' = ReadBytes(mem, chead + 4, clen, g)
              /\ cret' = <<cbuf'>>
              /\ delivered' = Append(delivered, cbuf')
              /\ head' = ArcNewHead(chead, clen)
              /\ lock' = "free"
              /\ cpc' = "idle"
              /\ UNCHANGED ppc
    /\ UNCHANGED <<build, mem, tail, clen, cstage, chead, ccalls, cstart,
                   cframe>>
    /\ UNCHANGED <<pdata, pbuf, pstage, ptail, pstart, pret, pcalls, pushed, pushedAt>>

----------------------------------------------------------------------------
(* Specifications *)

\* Sender::push: one step of the producer thread, at most max calls begun.
Producer(max) ==
    \/ /\ variant = "raw"
       /\ \/ \E d \in Payloads : pcalls + ccalls < max /\ PushBegin(d)
          \/ OfferCheck
          \/ OfferSlice
          \/ OfferCopy
          \/ OfferStore
    \/ /\ variant = "arc"
       /\ \/ \E d \in Payloads : pcalls + ccalls < max /\ ArcPushBegin(d)
          \/ ArcPushLock
          \/ ArcPushWrite

\* Receiver::pop: one step of the consumer thread.
Consumer(max) ==
    \/ /\ variant = "raw"
       /\ \/ pcalls + ccalls < max /\ PopBegin
          \/ PollCheck
          \/ PollSlice
          \/ PollCopy
          \/ PollStore
    \/ /\ variant = "arc"
       /\ \/ pcalls + ccalls < max /\ ArcPopBegin
          \/ ArcPopRead
          \/ ArcPopDeliver

\* One producer thread and one consumer thread, every interleaving.
Next == Producer(MaxConcCalls) \/ Consumer(MaxConcCalls)

Spec == Init /\ [][Next]_vars

\* Single-threaded use: a call is begun and finished before the next one.
NextSeq ==
    \/ cpc = "idle" /\ Producer(MaxCalls)
    \/ ppc = "idle" /\ Consumer(MaxCalls)

SpecSeq == Init /\ [][NextSeq]_vars

\* Single-threaded round trip: every push precedes the first pop.
NextRoundTrip ==
    \/ cpc = "idle" /\ ccalls = 0 /\ Producer(MaxCalls)
    \/ ppc = "idle" /\ Consumer(MaxCalls)

SpecRoundTrip == Init /\ [][NextRoundTrip]_vars

\* test_channel: the payload every iteration pushes (b"123": three equal-width
\* bytes, here three bytes of value 1).
LoopPayload == [i \in 1..3 |-> 1]

\* test_channel, producer thread: for each of LoopFrames frames, push is
\* called again until it returns true. At most MaxLoopCalls calls are begun.
LoopProducer ==
    \/ /\ variant = "raw"
       /\ \/ /\ Len(pushed) < LoopFrames
             /\ pcalls < MaxLoopCalls
             /\ PushBegin(LoopPayload)
          \/ OfferCheck
          \/ OfferSlice
          \/ OfferCopy
          \/ OfferStore
    \/ /\ variant = "arc"
       /\ \/ /\ Len(pushed) < LoopFrames
             /\ pcalls < MaxLoopCalls
             /\ ArcPushBegin(LoopPayload)
          \/ ArcPushLock
          \/ ArcPushWrite

\* test_channel, consumer thread: pop is called until LoopFrames frames have
\* been delivered. At most MaxLoopCalls calls are begun.
LoopConsumer ==
    \/ /\ variant = "raw"
       /\ \/ /\ Len(delivered) < LoopFrames
             /\ ccalls < MaxLoopCalls
             /\ PopBegin
          \/ PollCheck
          \/ PollSlice
          \/ PollCopy
          \/ PollStore
    \/ /\ variant = "arc"
       /\ \/ /\ Len(delivered) < LoopFrames
             /\ ccalls < MaxLoopCalls
             /\ ArcPopBegin
          \/ ArcPopRead
          \/ ArcPopDeliver

\* channel(): with_capacity, then the two endpoints are used.
NextCtor ==
    \/ with_capacity
    \/ ctor = "done" /\ Producer(MaxConcCalls)
    \/ ctor = "done" /\ Consumer(MaxConcCalls)

SpecCtor == InitCtor /\ [][NextCtor]_vars

NextLoop == LoopProducer \/ LoopConsumer

\* The two threads of test_channel, each scheduled again and again.
SpecLoop == Init /\ [][NextLoop]_vars /\ WF_vars(LoopProducer) /\ WF_vars(LoopConsumer)

----------------------------------------------------------------------------
(* Properties *)

IsPrefix(a, b) == Len(a) <= Len(b) /\ \A i \in 1..Len(a) : a[i] = b[i]

\* How many elements of the sequence q equal x.
Count(q, x) == Cardinality({i \in 1..Len(q) : q[i] = x})

\* Neither thread is inside a call.
Quiescent == ppc = "idle" /\ cpc = "idle"

\* The frame of payload d as it lies in the ring: length prefix, then payload.
Frame(d) == transform_u32_to_array_of_u8(Len(d)) \o d

\* C1: FIFO under concurrency. Under every interleaving of one producer and
\* one consumer, the payloads delivered by pop are at every moment a prefix
\* of the payloads successfully pushed.
C1_FifoUnderConcurrency == IsPrefix(delivered, pushed)

\* C2: no loss, no duplication. The successful pops never outnumber the
\* successful pushes and equal them once the ring is drained (no call in
\* progress and is_empty()), and every delivered payload is one pushed
\* payload, none delivered more often than it was pushed.
C2_NoLossNoDuplication ==
    /\ Len(delivered) <= Len(pushed)
    /\ (Quiescent /\ is_empty(head, tail)) => Len(delivered) = Len(pushed)
    /\ \A i \in 1..Len(delivered) :
          Count(delivered, delivered[i]) <= Count(pushed, delivered[i])

\* C3: no torn message. push changes tail only once, from the tail it
\* started from to the end of its frame, and at that moment the whole frame
\* (4-byte length prefix and payload) lies in the buffer; so a consumer that
\* sees tail # head finds a complete frame at head.
C3_NoTornMessage ==
    [][tail' # tail =>
          /\ tail' % Capacity = (pstart + 4 + Len(pdata)) % Capacity
          /\ ReadBytes(mem', pstart, 4 + Len(pdata), 0) = Frame(pdata)]_vars

\* The bytes the frames of the payloads in q occupy.
RECURSIVE FrameBytes(_)
FrameBytes(q) == IF q = <<>> THEN 0 ELSE 4 + Len(Head(q)) + FrameBytes(Tail(q))

\* C4: round trip. From a fresh ring, frames of total size <= N - 5 whose
\* cumulative occupancy stays <= N - 1 are all accepted by push, and the
\* pops that follow yield them one per pop, in order.
C4_RoundTrip ==
    (\A i \in 1..Len(pushed) : 4 + Len(pushed[i]) <= Capacity - 5) =>
        /\ ppc \notin Dead /\ cpc \notin Dead
        /\ (ppc = "idle" /\ pret = "false") =>
              ~ /\ 4 + Len(pdata) <= Capacity - 5
                /\ FrameBytes(pushed) + 4 + Len(pdata) <= Capacity - 1
        /\ (cpc = "idle" /\ ccalls <= Len(pushed)) =>
              delivered = SubSeq(pushed, 1, ccalls)

\* The consumer is inside a pop that found the ring non-empty.
Consuming ==
    \/ cpc \in {"poll_check", "poll_slice", "poll_copy", "poll_store"}
    \/ cpc = "arc_read" /\ head # tail
    \/ cpc = "arc_callback"

\* The index, among the frames pushed, of the frame that pop is consuming.
PoppingFrame ==
    IF cpc = "arc_read" \/ (cpc \notin {"arc_callback"} /\ cstage = 1)
    THEN cframe + 1 ELSE cframe

\* The k-th accepted push started from a state where tail + 4 + S > N.
Wrapped(k) == pushedAt[k] + 4 + Len(pushed[k]) > Capacity

\* C5: wrap correctness. The pop that consumes a frame whose push was
\* accepted in a state where tail + 4 + S > N ends by returning exactly the
\* payload pushed.
C5_WrapCorrectness ==
    [][(Consuming /\ cpc' \in {"idle", "panicked", "segv"}) =>
          \A k \in 1..Len(pushed) :
              (k = PoppingFrame /\ Wrapped(k)) =>
                  (cpc' = "idle" /\ cret' = <<pushed[k]>>)]_vars

\* free = N - ((tail - head) mod N), the free space of the data model.
Free == Capacity - ((tail - head) % Capacity)

\* This step is the beginning of a push call (of payload pdata').
PushCalled == pcalls' = pcalls + 1

\* This step ends the push call that was under way.
PushEnds == ppc \notin ({"idle"} \cup Dead) /\ ppc' \in {"idle", "panicked", "segv"}

\* The push begun by this step returns false at once.
Rejected == ppc' = "idle" /\ pret' = "false"

\* C6: push acceptance condition. A push of S bytes returns false exactly
\* when free <= S + 4 (so a frame of exactly the free size is rejected), and
\* returns true otherwise.
C6_PushAcceptance ==
    [][/\ PushCalled => IF Free <= Len(pdata') + 4
                        THEN Rejected
                        ELSE ~Rejected /\ ppc' \notin Dead
       /\ PushEnds => (ppc' = "idle" /\ pret' = "true")]_vars

\* C7: size boundary. A push of a payload of N - 4 bytes or more returns
\* false and leaves tail, head and the buffer as they were.
C7_SizeBoundary ==
    [][(PushCalled /\ Len(pdata') >= Capacity - 4) =>
          (Rejected /\ UNCHANGED <<tail, head, mem>>)]_vars

\* This step is the one at which a pop call tests the ring for emptiness:
\* the first step of pop (raw), the step after the mutex is taken (arc).
PopTestsEmpty ==
    \/ variant = "raw" /\ cpc = "idle" /\ ccalls' = ccalls + 1
    \/ variant = "arc" /\ cpc = "arc_read" /\ cpc' # cpc

\* C8: empty detection. A pop that finds head == tail returns at once with
\* nothing (None): the callback is not invoked, nothing is delivered, and
\* head and tail stay as they are.
C8_EmptyDetection ==
    [][(PopTestsEmpty /\ head = tail) =>
          /\ cpc' = "idle"
          /\ cret' = <<>>
          /\ UNCHANGED <<delivered, head, tail>>]_vars

\* A frame was pushed and delivered, and the pop called next, on the
\* drained ring (head == tail, past offset 0), returned None.
C8_Witness ==
    /\ pcalls = 1 /\ ccalls = 2 /\ Quiescent
    /\ Len(delivered) = 1 /\ cret = <<>>
    /\ head = tail /\ head > 0

\* The last push (of at most N - 5 bytes) returned false and only pops
\* have been called since.
Draining == ppc = "idle" /\ pret = "false" /\ Len(pdata) <= Capacity - 5

\* C9: full then drain. After a push of S <= N - 5 bytes returned false, the
\* pops that follow all complete, the ring is empty once every frame pushed
\* has been popped (so the drain ends after finitely many pops), and a push
\* of the same payload on the emptied ring is accepted.
C9_FullThenDrain ==
    [][Draining =>
          /\ cpc' \notin Dead
          /\ (cpc' = "idle" /\ cframe' >= Len(pushed)) => is_empty(head', tail')
          /\ (PushCalled /\ cpc = "idle" /\ is_empty(head, tail) /\ pdata' = pdata)
                => (~Rejected /\ ppc' \notin Dead)]_vars

\* C10: zero-length payload. A push of the empty payload is accepted
\* whenever free > 4 and moves tail by exactly 4; the pop that consumes the
\* frame returns Some of the empty payload, also when the frame is the last
\* in the ring, and then the ring is empty.
C10_ZeroLengthPayload ==
    [][/\ (PushCalled /\ pdata' = <<>> /\ Free > 4) => (~Rejected /\ ppc' \notin Dead)
       /\ (PushEnds /\ pdata = <<>>) =>
             /\ ppc' = "idle" /\ pret' = "true"
             /\ tail' % Capacity = (pstart + 4) % Capacity
       /\ (Consuming /\ cpc' \in {"idle", "panicked", "segv"}) =>
             \A k \in 1..Len(pushed) :
                 (k = PoppingFrame /\ pushed[k] = <<>>) =>
                     /\ cpc' = "idle"
                     /\ cret' = << <<>> >>
                     /\ k = Len(pushed) => is_empty(head', tail')]_vars

\* test_channel has ended: every frame was pushed and every frame delivered.
LoopDone == Len(pushed) = LoopFrames /\ Len(delivered) = LoopFrames

\* A thread whose loop has not ended has used up the calls a run allows it.
LoopBudgetOut ==
    \/ Len(pushed) < LoopFrames /\ pcalls = MaxLoopCalls
    \/ Len(delivered) < LoopFrames /\ ccalls = MaxLoopCalls

\* C11: progress of the retry loops. With the producer retrying each push
\* until it returns true and the consumer calling pop again and again, both
\* scheduled fairly, every frame is eventually pushed and delivered and both
\* loops end (unless the run's calls are used up first).
C11_RetryLoopsProgress == <>(LoopDone \/ LoopBudgetOut)

\* C12: non-blocking operations never wait on the other endpoint. No mutex is
\* ever held, and whatever point the other thread is stalled at, a push that
\* is called or under way and a pop that is called or under way can take
\* their next step.
C12_NeverWaits ==
    /\ lock = "free"
    /\ ppc \notin Dead => ENABLED Producer(pcalls + ccalls + 1)
    /\ cpc \notin Dead => ENABLED Consumer(pcalls + ccalls + 1)

\* C13: construction failure cleanup. When with_capacity returns the OS
\* error, no part of the 2N-byte range is left mapped or reserved.
C13_FailureCleanup ==
    ctor = "failed" => \A h \in {0, 1} : backing[h] = "unmapped"

\* C14: VM mirror. After a successful with_capacity the two halves are
\* backed by the same pages: base + i and base + i + N are the same storage
\* and hold the same byte in every later state.
C14_VmMirror ==
    ctor = "done" =>
        \A i \in 0..(Capacity - 1) :
            SameStorage(i, i + Capacity) /\ mem[i] = mem[i + Capacity]

\* C15: initial state. Right after construction with size N, size() is N,
\* head and tail are 0 and used() is 0; size() is still N after any pushes
\* and pops.
C15_InitialState ==
    ctor = "done" =>
        /\ size = Capacity
        /\ (pcalls = 0 /\ ccalls = 0) =>
              (head = 0 /\ tail = 0 /\ used(head, tail) = 0)

\* A ring was constructed, a frame pushed and popped and a pop called on
\* the emptied ring, and size() is N.
C15_Witness ==
    /\ ctor = "done" /\ capacity = Capacity /\ size = Capacity
    /\ Len(pushed) = 1 /\ Len(delivered) = 1 /\ ccalls = 2 /\ Quiescent

\* C16: index range. In every reachable state both stored indices lie in
\* 0 .. N - 1.
C16_IndexRange ==
    /\ 0 <= head /\ head < Capacity
    /\ 0 <= tail /\ tail < Capacity

\* This step is one of a pop (or the fault that kills the consumer thread).
PopStep == ccalls' # ccalls \/ cpc' # cpc

\* This step ends a pop call by its return.
PopReturns ==
    \/ ccalls' # ccalls /\ cpc' = "idle"
    \/ cpc \notin ({"idle"} \cup Dead) /\ cpc' = "idle"

\* C17: pop advances only head, modulo N. No step of a pop changes tail; a
\* pop that delivers a payload of L bytes and started with head = h returns
\* with head = (h + 4 + L) mod N; a pop that delivers nothing returns with
\* head as it was.
C17_PopAdvancesHead ==
    [][/\ PopStep => tail' = tail
       /\ PopReturns =>
             IF delivered' # delivered
             THEN head' = (cstart' + 4 + Len(cret'[1])) % Capacity
             ELSE head' = cstart']_vars

\* This step is one of a push (or the fault that kills the producer thread).
PushStep == pcalls' # pcalls \/ ppc' # ppc

\* C18: push advances only tail, modulo N. No step of a push changes head; a
\* push of S bytes that started with tail = t and returns true returns with
\* tail = (t + 4 + S) mod N (0, not N, when the frame ends at N).
C18_PushAdvancesTail ==
    [][/\ PushStep => head' = head
       /\ (PushEnds /\ ppc' = "idle" /\ pret' = "true") =>
             tail' = (pstart + 4 + Len(pdata)) % Capacity]_vars

\* The frames successfully pushed whose length prefix no pop has read yet.
Pending == SubSeq(pushed, cframe + 1, Len(pushed))

\* C19: occupancy accounting. In every quiescent state used() returns
\* (tail - head) mod N, which is the sum of 4 + L over the frames pushed and
\* not yet popped and is at most N - 1, and unused() returns N - used().
C19_OccupancyAccounting ==
    Quiescent =>
        /\ ~(debug /\ unused_overflows(head, tail))
        /\ used(head, tail) = (tail - head) % Capacity
        /\ used(head, tail) = FrameBytes(Pending)
        /\ used(head, tail) <= Capacity - 1
        /\ unused(head, tail) = Capacity - used(head, tail)

\* The byte ranges <<offset, length>> this step writes (push) or reads (pop).
\* The prefix and the payload that cbuffer_raw_arc.rs copies one after the
\* other, at tail and tail + 4 (head and head + 4), count as one range.
Writes ==
    IF ppc \in {"offer_copy", "arc_write"} /\ ppc' \notin {ppc, "killed"}
    THEN {<<ptail, Len(pbuf)>>}
    ELSE {}

Reads ==
    IF cpc = "poll_copy" /\ cpc' \notin {cpc, "killed"}
    THEN {<<chead, clen>>}
    ELSE IF cpc = "arc_read" /\ cpc' \notin {cpc, "killed"} /\ head # tail
    THEN {<<head, 4>>}
    ELSE IF cpc = "arc_callback" /\ cpc' \notin {cpc, "killed"}
    THEN {<<chead, 4 + clen>>}
    ELSE {}

\* A range that starts in [0, N) and is at most N long (or has no byte).
InBounds(a) == a[2] = 0 \/ (0 <= a[1] /\ a[1] < Capacity /\ 0 < a[2] /\ a[2] <= Capacity)

\* The bytes of the ring (offsets modulo N) a range covers.
RingBytes(a) == {(a[1] + j) % Capacity : j \in 0..(a[2] - 1)}

\* The bytes of the frames pushed and not yet popped.
LiveBytes ==
    UNION { RingBytes(<<pushedAt[k], 4 + Len(pushed[k])>>) :
              k \in {i \in 1..Len(pushed) :
                       i >= (IF Consuming THEN PoppingFrame ELSE cframe + 1)} }

\* C20: access bounds. Every range a push writes or a pop reads starts at an
\* offset in [0, N) and is at most N long, so it lies inside the 2N mapped
\* bytes; a push writes only free bytes and a pop reads only bytes of frames
\* pushed and not yet popped.
C20_AccessBounds ==
    [][/\ \A a \in Writes : InBounds(a) /\ RingBytes(a) \cap LiveBytes = {}
       /\ \A a \in Reads : InBounds(a) /\ RingBytes(a) \subseteq LiveBytes]_vars

\* C21: in every quiescent state is_empty() (head == tail) is true exactly
\* when used() returns 0, and both hold exactly when every successfully
\* pushed frame has been popped, also after the indices have wrapped.
C21_EmptinessConsistent ==
    Quiescent =>
        /\ ~(debug /\ used_overflows(head, tail))
        /\ is_empty(head, tail) <=> (used(head, tail) = 0)
        /\ is_empty(head, tail) <=> (Pending = <<>>)
====
